---- MODULE Spec2Model ----
(***************************************************************************)
(* The day-night cycle controller of the WebXR playground                  *)
(* (components/dayNightCycle.js, held here as src/unnamed/part_000) and    *)
(* the scene objects it writes to; the player's hands (player.js), the     *)
(* ambient audio (audio.js), the host's controllers, movement and frame    *)
(* loop (main.js), the terrain colors (terrain.js, part_003) and the       *)
(* vegetation scatter (trees.js, part_002).  Each has its specification;   *)
(* in the specification of one component the others rest in the state      *)
(* init() leaves them in.                                                  *)
(*                                                                         *)
(* Numbers.  JavaScript numbers are modelled in fixed point:               *)
(*   - a time of day is a whole number of ticks, Den ticks to one cycle    *)
(*     (timeOfDay = 0.5 is the tick Den \div 2);                           *)
(*   - Math.sin is the table SinQuarter, correct to four decimals, so a    *)
(*     factor f is the integer f * One;                                    *)
(*   - light intensities are in units of 1/(10 * One), the configured      *)
(*     maxima being tenths (2.5 is 25);                                    *)
(*   - a delta and a duration are whole seconds, drawn so that             *)
(*     delta / dayDuration is a whole number of ticks.                     *)
(* Differences below the fourth decimal (Math.sin(Math.PI) is 1.2e-16,     *)
(* not 0) are below the resolution of the model.                           *)
(***************************************************************************)
EXTENDS Integers, Sequences, FiniteSets, TLC

VARIABLES
    \* cycleParams (part_000:11-14)
    timeOfDay, dayDuration, paused,
    \* scene objects the controller writes
    sunLight, moonLight, ambientLight, skyUniforms, stars, visualSun,
    \* what setup found in the scene
    skyDome, sunRef,
    \* the call log: the last call, its argument and result, the call before
    \* it, and the pause flag before each of the two
    lastOp, lastArg, ret, prevOp, pausedBefore, pausedBefore2,
    \* the player's hands (player.js:16-21), the indices for which some
    \* updateHands call brought a pose, and the list the last call was given
    leftHand, rightHand, supplied, lastControllers,
    \* main.js: where animate stands, the delta its clock gave this frame,
    \* the component updates and the render this frame has issued so far
    pc, frameDelta, frameLog,
    \* main.js: userData of the two controllers, the poses of the two
    \* controller grips, whether a 'connected' event has fired yet
    controllers, controllerGrips, everConnected,
    \* main.js: the four movement flags, player.group.position and
    \* camera.position
    move, playerPosition, cameraPosition,
    \* main.js: the WASD keys that are down, and whether every axis the
    \* frame's updateControllers read was within the deadzone
    keysHeld, sticksIdle,
    \* audio.js: volume and isPlaying of the bird and night sources, and the
    \* module's dayNightState
    audioSources, dayNightState,
    \* terrain.js: the elevations of the geometry's vertices, its color
    \* attribute, and the branch of applyTerrainColors that colored each
    positions, colors, branches,
    \* trees.js: the scatter loop that ran, its treeCount and the threshold of
    \* its gate, the noise it sampled for its candidates, and the trees it
    \* added to the group
    scatter, treeCount, noiseThreshold, candidates, trees,
    \* terrain.js: the fireflies of the group (their userData, position and
    \* scale), the wall clock Date.now(), and the clock's reading at the
    \* last fireflies.update
    fireflies, now, updatedAt

cycleVars == <<timeOfDay, dayDuration, paused>>
sceneVars == <<sunLight, moonLight, ambientLight, skyUniforms, stars, visualSun>>
setupVars == <<skyDome, sunRef>>
logVars == <<lastOp, lastArg, ret, prevOp, pausedBefore, pausedBefore2>>
dayNightVars == <<cycleVars, sceneVars, setupVars, logVars>>
playerVars == <<leftHand, rightHand, supplied, lastControllers>>
frameVars == <<pc, frameDelta, frameLog>>
controllerVars == <<controllers, controllerGrips, everConnected>>
moveVars == <<move, playerPosition, cameraPosition>>
inputVars == <<keysHeld, sticksIdle>>
audioVars == <<audioSources, dayNightState>>
hostVars == <<frameVars, controllerVars, moveVars, inputVars, audioVars>>
terrainVars == <<positions, colors, branches>>
treeVars == <<scatter, treeCount, noiseThreshold, candidates, trees>>
fireflyVars == <<fireflies, now, updatedAt>>
vars == <<dayNightVars, playerVars, hostVars, terrainVars, treeVars, fireflyVars>>

----------------------------------------------------------------------------
(* Fixed point                                                             *)

\* Math.sin over the first quarter turn, in steps of 3 degrees, times 10000.
SinQuarter ==
    << 0, 523, 1045, 1564, 2079, 2588, 3090, 3584, 4067, 4540, 5000,
       5446, 5878, 6293, 6691, 7071, 7431, 7771, 8090, 8387, 8660,
       8910, 9135, 9336, 9511, 9659, 9781, 9877, 9945, 9986, 10000 >>

Quarter == Len(SinQuarter) - 1
Den == 4 * Quarter
Half == 2 * Quarter
One == SinQuarter[Quarter + 1]

\* Math.sin(t * Math.PI * 2) for a time of t ticks, of either sign.
Sin(t) ==
    LET m == t % Den
    IN  IF m <= Quarter THEN SinQuarter[m + 1]
        ELSE IF m <= Half THEN SinQuarter[Half - m + 1]
        ELSE IF m <= Half + Quarter THEN 0 - SinQuarter[m - Half + 1]
        ELSE 0 - SinQuarter[Den - m + 1]

\* Math.cos(t * Math.PI * 2), which is also Math.sin(angle + Math.PI * 0.5).
Cos(t) == Sin(t + Quarter)

Max(a, b) == IF a >= b THEN a ELSE b
Min(a, b) == IF a <= b THEN a ELSE b

\* The JavaScript remainder x % m: truncated, with the sign of x.
JSRem(x, m) == IF x >= 0 THEN x % m ELSE 0 - ((0 - x) % m)

----------------------------------------------------------------------------
(* cycleParams                                                             *)

\* dayDuration in seconds; the four intensities in tenths (2.5, 0.5, 1.5,
\* 0.5); the colors as the red, green and blue bytes of their hex codes.
InitDayDuration == 240
dayLightIntensity == 25
nightLightIntensity == 5
dayAmbientIntensity == 15
nightAmbientIntensity == 5

daySkyTop == <<26, 140, 255>>
daySkyBottom == <<166, 230, 255>>
nightSkyTop == <<0, 0, 51>>
nightSkyBottom == <<0, 0, 102>>
dayAmbientColor == <<96, 96, 96>>
nightAmbientColor == <<32, 32, 64>>

InitTimeOfDay == Half

----------------------------------------------------------------------------
(* Inputs                                                                  *)

MaxDeltaSteps == 1
MaxQuarters == 5

\* One tick of the initial cycle, in seconds.
DeltaUnit == InitDayDuration \div Den

\* Frame deltas in seconds: nothing, a few ticks, a quarter cycle, a cycle.
Deltas ==
    {k * DeltaUnit : k \in 0..MaxDeltaSteps}
        \cup {InitDayDuration \div 4, InitDayDuration}

\* Arguments of setTimeOfDay, in ticks: midnight, a quarter turn of either
\* sign, and more than one cycle in either direction.
Times == {q * Quarter : q \in {0 - MaxQuarters, 0 - 1, 0, 1, MaxQuarters}}

\* Arguments of setCycleSpeed, in seconds.
Durations == {0 - 5, 0, InitDayDuration \div 2, InitDayDuration}

----------------------------------------------------------------------------
(* The blend functions                                                     *)

\* delta / cycleParams.dayDuration, in ticks.
CycleFraction(delta, duration) == (delta * Den) \div duration

\* AdvanceTime dividing by the duration the cycle was built with instead of
\* the current one.
AdvanceTimeStaleDuration(t, delta, duration) ==
    JSRem(t + CycleFraction(delta, InitDayDuration), Den)

\* (cycleParams.timeOfDay + delta / cycleParams.dayDuration) % 1.0
AdvanceTime(t, delta, duration) == JSRem(t + CycleFraction(delta, duration), Den)

\* time % 1.0
WrapTime(time) == JSRem(time, Den)

\* DayFactor without the clamp at 0.
DayFactorUnclamped(t) == Sin(t)

\* Math.max(0, Math.sin(timeOfDay * Math.PI * 2))
DayFactor(t) == Max(0, Sin(t))

NightFactor(t) == One - DayFactor(t)

SunIntensity(t) == dayLightIntensity * DayFactor(t)

\* MoonIntensity following the day factor.
MoonIntensityByDay(t) == nightLightIntensity * DayFactor(t)

MoonIntensity(t) == nightLightIntensity * NightFactor(t)

AmbientIntensity(t) ==
    dayAmbientIntensity * DayFactor(t) + nightAmbientIntensity * NightFactor(t)

\* THREE.Color.lerp: this + (target - this) * alpha, per channel, times One.
Lerp(from, to, alpha) ==
    [i \in 1..3 |-> from[i] * One + (to[i] - from[i]) * alpha]

AmbientColor(t) == Lerp(dayAmbientColor, nightAmbientColor, NightFactor(t))

SkyColors(t) ==
    [topColor |-> Lerp(daySkyTop, nightSkyTop, NightFactor(t)),
     bottomColor |-> Lerp(daySkyBottom, nightSkyBottom, NightFactor(t))]

\* sunLight.position.set(sunX * 5, sunY * 10, 1)
SunPosition(t) == <<5 * Cos(t), 10 * Sin(t), One>>

\* moonLight.position.set(-sunX * 5, -sunY * 10, -1)
MoonPosition(t) == <<0 - 5 * Cos(t), 0 - 10 * Sin(t), 0 - One>>

StarThreshold == One \div 10

\* StarsVisible showing the stars only in full night.
StarsVisibleFullNight(t) == DayFactor(t) <= 0

\* stars.visible = dayFactor < 0.1
StarsVisible(t) == DayFactor(t) < StarThreshold

\* StarsOpacity without the clamp at 0.
StarsOpacityUnclamped(t) ==
    IF DayFactor(t) <= StarThreshold
        THEN ((StarThreshold - DayFactor(t)) * One) \div StarThreshold
        ELSE 0 - (((DayFactor(t) - StarThreshold) * One) \div StarThreshold)

\* Math.max(0, 0.1 - dayFactor) / 0.1
StarsOpacity(t) == (Max(0, StarThreshold - DayFactor(t)) * One) \div StarThreshold

SunOrbitRadius == 300

\* The billboard of the sun: position, children's opacity, visibility.
\* VisualSun hidden as soon as the sun is below the horizon.
VisualSunHiddenBelowHorizon(t) ==
    LET opacity == Max(0, Min(One, (Sin(t) + (2 * One) \div 10) * 2))
    IN  [position |-> <<Cos(t) * SunOrbitRadius,
                        Max(0, Sin(t) * SunOrbitRadius),
                        Cos(t) * SunOrbitRadius>>,
         opacity |-> <<opacity, opacity, opacity>>,
         visible |-> Sin(t) > 0]

VisualSun(t) ==
    LET opacity == Max(0, Min(One, (Sin(t) + (2 * One) \div 10) * 2))
    IN  [position |-> <<Cos(t) * SunOrbitRadius,
                        Max(0, Sin(t) * SunOrbitRadius),
                        Cos(t) * SunOrbitRadius>>,
         opacity |-> <<opacity, opacity, opacity>>,
         visible |-> Sin(t) > 0 - (2 * One) \div 10]

----------------------------------------------------------------------------
(* The state after init() has built the scene and set up the cycle         *)
(*                                                                         *)
(* sunLight is main.js's directionalLight (intensity 2.5 at (5, 10, 5));   *)
(* moonLight, ambientLight and stars are as setupDayNightCycle creates     *)
(* them; skyUniforms and visualSun are as the sky component creates them   *)
(* (the dome's two colors; the sun group at the origin, its disc, glow and *)
(* rays at opacity 0.9, 0.4 and 0.3).  The scene holds the sky, so setup   *)
(* finds the dome; sky.userData.sun is set only by the sky's first update. *)

\* setupDayNightCycle on a scene in which the traversal finds the sky dome
\* (domeFound) or does not.
DayNightSetup(domeFound) ==
    /\ timeOfDay = InitTimeOfDay
    /\ dayDuration = InitDayDuration
    /\ paused = FALSE
    /\ sunLight = [position |-> <<5 * One, 10 * One, 5 * One>>,
                   intensity |-> dayLightIntensity * One]
    /\ moonLight = [position |-> <<0 - One, One, 0 - One>>, intensity |-> 0]
    /\ ambientLight = [intensity |-> dayAmbientIntensity * One,
                       color |-> [i \in 1..3 |-> dayAmbientColor[i] * One]]
    /\ skyUniforms = [topColor |-> [i \in 1..3 |-> daySkyTop[i] * One],
                      bottomColor |-> [i \in 1..3 |-> daySkyBottom[i] * One]]
    /\ stars = [visible |-> FALSE, opacity |-> 0]
    /\ visualSun = [position |-> <<0, 0, 0>>,
                    opacity |-> <<(9 * One) \div 10, (4 * One) \div 10,
                                  (3 * One) \div 10>>,
                    visible |-> TRUE]
    /\ skyDome = domeFound
    /\ sunRef = FALSE
    /\ lastOp = "init"
    /\ lastArg = 0
    /\ ret = "undefined"
    /\ prevOp = "init"
    /\ pausedBefore = FALSE
    /\ pausedBefore2 = FALSE

DayNightInit == DayNightSetup(TRUE)

\* The call log: what was called with what, what it returned, the call
\* before it, and the pause flag before each of the two.
Log(op, arg, result) ==
    /\ lastOp' = op
    /\ lastArg' = arg
    /\ ret' = result
    /\ prevOp' = lastOp
    /\ pausedBefore' = paused
    /\ pausedBefore2' = pausedBefore

----------------------------------------------------------------------------
(* The controller                                                          *)

\* Refresh reading the uniforms of a dome that is not there: the TypeError
\* ends the update after updateLighting, before updateStars.
RefreshFaultingWithoutDome(t) ==
    /\ timeOfDay' = t
    /\ sunLight' = [position |-> SunPosition(t), intensity |-> SunIntensity(t)]
    /\ moonLight' = [position |-> MoonPosition(t), intensity |-> MoonIntensity(t)]
    /\ visualSun' = IF sunRef THEN VisualSun(t) ELSE visualSun
    /\ ambientLight' = [intensity |-> AmbientIntensity(t), color |-> AmbientColor(t)]
    /\ skyUniforms' = IF skyDome THEN SkyColors(t) ELSE skyUniforms
    /\ stars' = IF skyDome THEN [visible |-> StarsVisible(t), opacity |-> StarsOpacity(t)]
                ELSE stars

\* The body of update past the pause gate: the new time of day t, then
\* updateSunPosition, updateLighting, updateSkyColors and updateStars.
Refresh(t) ==
    /\ timeOfDay' = t
    /\ sunLight' = [position |-> SunPosition(t), intensity |-> SunIntensity(t)]
    /\ moonLight' = [position |-> MoonPosition(t), intensity |-> MoonIntensity(t)]
    /\ visualSun' = IF sunRef THEN VisualSun(t) ELSE visualSun
    /\ ambientLight' = [intensity |-> AmbientIntensity(t), color |-> AmbientColor(t)]
    /\ skyUniforms' = IF skyDome THEN SkyColors(t) ELSE skyUniforms
    /\ stars' = [visible |-> StarsVisible(t), opacity |-> StarsOpacity(t)]

\* update without the pause gate.
updateIgnoringPause(delta) ==
    /\ Refresh(AdvanceTime(timeOfDay, delta, dayDuration))
    /\ UNCHANGED <<dayDuration, paused, setupVars>>
    /\ Log("update", delta, "undefined")

update(delta) ==
    /\ IF paused
         THEN UNCHANGED <<timeOfDay, sceneVars>>
         ELSE Refresh(AdvanceTime(timeOfDay, delta, dayDuration))
    /\ UNCHANGED <<dayDuration, paused, setupVars>>
    /\ Log("update", delta, "undefined")

getTimeOfDay ==
    /\ UNCHANGED <<cycleVars, sceneVars, setupVars>>
    /\ Log("getTimeOfDay", 0, timeOfDay)

\* setTimeOfDay resuming a paused cycle.
setTimeOfDayResuming(time) ==
    /\ timeOfDay' = WrapTime(time)
    /\ paused' = FALSE
    /\ UNCHANGED <<dayDuration, sceneVars, setupVars>>
    /\ Log("setTimeOfDay", time, "undefined")

setTimeOfDay(time) ==
    /\ timeOfDay' = WrapTime(time)
    /\ UNCHANGED <<dayDuration, paused, sceneVars, setupVars>>
    /\ Log("setTimeOfDay", time, "undefined")

\* togglePause setting the flag instead of flipping it.
togglePauseSet ==
    /\ paused' = TRUE
    /\ UNCHANGED <<timeOfDay, dayDuration, sceneVars, setupVars>>
    /\ Log("togglePause", 0, TRUE)

togglePause ==
    /\ paused' = ~paused
    /\ UNCHANGED <<timeOfDay, dayDuration, sceneVars, setupVars>>
    /\ Log("togglePause", 0, ~paused)

\* setCycleSpeed accepting 0.
setCycleSpeedAcceptZero(durationInSeconds) ==
    /\ dayDuration' = IF durationInSeconds >= 0 THEN durationInSeconds ELSE dayDuration
    /\ UNCHANGED <<timeOfDay, paused, sceneVars, setupVars>>
    /\ Log("setCycleSpeed", durationInSeconds, "undefined")

\* setCycleSpeed without its check.
setCycleSpeedUnchecked(durationInSeconds) ==
    /\ dayDuration' = durationInSeconds
    /\ UNCHANGED <<timeOfDay, paused, sceneVars, setupVars>>
    /\ Log("setCycleSpeed", durationInSeconds, "undefined")

setCycleSpeed(durationInSeconds) ==
    /\ dayDuration' = IF durationInSeconds > 0 THEN durationInSeconds ELSE dayDuration
    /\ UNCHANGED <<timeOfDay, paused, sceneVars, setupVars>>
    /\ Log("setCycleSpeed", durationInSeconds, "undefined")

\* skyGroup.update of the sky component: it stores the reference to the sun
\* that updateSunPosition looks for.  The drift it gives the clouds touches
\* only the clouds' transforms.
skyUpdate ==
    /\ sunRef' = TRUE
    /\ UNCHANGED <<cycleVars, sceneVars, skyDome>>
    /\ Log("skyUpdate", 0, "undefined")

----------------------------------------------------------------------------
(* The player's hands (player.js)                                          *)

\* How many poses a caller hands to updateHands at most.
MaxPoses == 2

\* Where a tracked controller grip can be, and how it can be turned: at the
\* origin or to the left or right in front of the chest; not turned or
\* turned half around the vertical axis.
GripPositions ==
    {<<0, 0, 0>>,
     <<0 - (One \div 4), One, 0 - (One \div 2)>>,
     <<One \div 4, One, 0 - (One \div 2)>>}
GripQuaternions == {<<0, 0, 0, One>>, <<0, One, 0, 0>>}
Poses == [position : GripPositions, quaternion : GripQuaternions]

RECURSIVE PoseLists(_)
PoseLists(n) ==
    IF n = 0 THEN {<< >>}
    ELSE LET shorter == PoseLists(n - 1)
         IN  shorter \cup {Append(l, p) : l \in {m \in shorter : Len(m) = n - 1},
                                          p \in Poses}

\* A hand as createHandModel leaves it (turned by -pi/2 about x, at the
\* origin of the player group) and createPlayer hides it.
HiddenHand ==
    [visible |-> FALSE,
     position |-> <<0, 0, 0>>,
     quaternion |-> <<0 - Sin(Quarter \div 2), 0, 0, Sin(Quarter \div 2)>>]

PlayerInit ==
    /\ leftHand = HiddenHand
    /\ rightHand = HiddenHand
    /\ supplied = {}
    /\ lastControllers = << >>

\* The hand after it was given a controller's pose.
HandAt(pose) ==
    [visible |-> TRUE, position |-> pose.position, quaternion |-> pose.quaternion]

\* updateHands hiding the hand whose index the list does not reach.
updateHandsHidingAbsent(poses) ==
    /\ leftHand' = IF Len(poses) > 0 THEN HandAt(poses[1])
                   ELSE [leftHand EXCEPT !.visible = FALSE]
    /\ rightHand' = IF Len(poses) > 1 THEN HandAt(poses[2])
                    ELSE [rightHand EXCEPT !.visible = FALSE]
    /\ supplied' = supplied \cup {i \in {0, 1} : Len(poses) > i}
    /\ lastControllers' = poses

\* updateHands giving the first pose to the right hand and the second to
\* the left.
updateHandsSwapped(poses) ==
    /\ rightHand' = IF Len(poses) > 0 THEN HandAt(poses[1]) ELSE rightHand
    /\ leftHand' = IF Len(poses) > 1 THEN HandAt(poses[2]) ELSE leftHand
    /\ supplied' = supplied \cup {i \in {0, 1} : Len(poses) > i}
    /\ lastControllers' = poses

\* updateHands showing both hands as soon as one pose is there.
updateHandsShowBoth(poses) ==
    /\ leftHand' = IF Len(poses) > 0 THEN HandAt(poses[1]) ELSE leftHand
    /\ rightHand' = IF Len(poses) > 1 THEN HandAt(poses[2])
                    ELSE IF Len(poses) > 0
                             THEN [rightHand EXCEPT !.visible = TRUE]
                             ELSE rightHand
    /\ supplied' = supplied \cup {i \in {0, 1} : Len(poses) > i}
    /\ lastControllers' = poses

updateHands(poses) ==
    /\ leftHand' = IF Len(poses) > 0 THEN HandAt(poses[1]) ELSE leftHand
    /\ rightHand' = IF Len(poses) > 1 THEN HandAt(poses[2]) ELSE rightHand
    /\ supplied' = supplied \cup {i \in {0, 1} : Len(poses) > i}
    /\ lastControllers' = poses

----------------------------------------------------------------------------
(* Ambient audio (audio.js)                                                *)

\* Volumes are in the unit of the light intensities: tenths, times One.
\* createAudioSources sets the birds to 0.5 and the night ambience to 0;
\* createPlaceholderAudioFiles gives both a buffer, so playAmbientAudio
\* starts both.
AudioInit ==
    /\ audioSources = [birds |-> [volume |-> 5 * One, isPlaying |-> TRUE],
                       night |-> [volume |-> 0, isPlaying |-> TRUE]]
    /\ dayNightState = "day"

\* updateAudioForTimeOfDay(timeOfDay), with its own dayFactor.
updateAudioForTimeOfDay(t) ==
    LET dayFactor == Max(0, Sin(t))
        nightFactor == One - dayFactor
    IN  /\ audioSources' =
               [birds |-> IF audioSources.birds.isPlaying
                              THEN [audioSources.birds EXCEPT !.volume = 5 * dayFactor]
                              ELSE audioSources.birds,
                night |-> IF audioSources.night.isPlaying
                              THEN [audioSources.night EXCEPT !.volume = 5 * nightFactor]
                              ELSE audioSources.night]
        /\ dayNightState' = IF dayFactor * 10 > 3 * One THEN "day" ELSE "night"

----------------------------------------------------------------------------
(* The host: controllers, movement and the frame loop (main.js)            *)

\* What clock.getDelta() gives a frame, in seconds: an eighth or a quarter
\* of the initial cycle.
HostDeltas == {InitDayDuration \div 8, InitDayDuration \div 4}

\* Units per second.
moveSpeed == 5

\* What navigator.getGamepads() gives while nobody touches a stick: no
\* gamepad, or one whose axes (in hundredths) rest inside the deadzone or
\* on its edge.
deadzone == 15
IdleGamepads ==
    {<< >>, <<[axes |-> <<0, 0>>]>>, <<[axes |-> <<deadzone, 0 - deadzone>>]>>}

\* What it gives while somebody plays: the above, or one gamepad whose
\* stick is pushed all the way in one direction.
StickGamepads ==
    IdleGamepads \cup {<<[axes |-> <<x, 0>>]>> : x \in {-100, 100}}
                 \cup {<<[axes |-> <<0, y>>]>> : y \in {-100, 100}}

\* Every axis of every gamepad is within the deadzone.
WithinDeadzone(gamepads) ==
    \A k \in 1..Len(gamepads) : \A a \in 1..2 :
        /\ gamepads[k].axes[a] <= deadzone
        /\ 0 - gamepads[k].axes[a] <= deadzone

\* The keys the keydown and keyup listeners know, and the flag of each.
Keys == {"KeyW", "KeyS", "KeyA", "KeyD"}
FlagOf(code) ==
    CASE code = "KeyW" -> "forward"
      [] code = "KeyS" -> "backward"
      [] code = "KeyA" -> "left"
      [] code = "KeyD" -> "right"

\* A controller grip before the XR runtime tracks it.
UntrackedGrip == [position |-> <<0, 0, 0>>, quaternion |-> <<0, 0, 0, One>>]

\* The poses the XR runtime reports for grip i (0 or 1): to the left or to
\* the right in front of the chest, turned or not.
TrackedPoses(i) ==
    {p \in Poses : p.position[1] # 0 /\ (p.position[1] < 0 <=> i = 0)}

\* userData of a controller before any 'connected' event.
NoUserData == [handedness |-> "undefined", gamepad |-> "undefined"]

\* moveForward, moveBackward, moveLeft and moveRight as the module declares
\* them.
NoFlags == [forward |-> FALSE, backward |-> FALSE, left |-> FALSE, right |-> FALSE]

HostInit ==
    /\ pc = "idle"
    /\ frameDelta = 0
    /\ frameLog = << >>
    /\ controllers = <<NoUserData, NoUserData>>
    /\ controllerGrips = <<UntrackedGrip, UntrackedGrip>>
    /\ everConnected = FALSE
    /\ move = NoFlags
    /\ playerPosition = <<0, 0, 0>>
    /\ cameraPosition = <<0, 20, 30>>
    /\ keysHeld = {}
    /\ sticksIdle = TRUE

\* The 'connected' listener of controller i: it stores the handedness and
\* the gamepad of the event.
onConnected(i, handedness) ==
    /\ pc = "idle"
    /\ controllers' = [controllers EXCEPT ![i + 1] =
                           [handedness |-> handedness, gamepad |-> "gamepad"]]
    /\ everConnected' = TRUE
    /\ UNCHANGED <<frameVars, controllerGrips, moveVars, inputVars, audioVars>>

\* The 'disconnected' listener of controller i.
onDisconnected(i) ==
    /\ pc = "idle"
    /\ controllers[i + 1].gamepad = "gamepad"
    /\ controllers' = [controllers EXCEPT ![i + 1].gamepad = "null"]
    /\ UNCHANGED <<frameVars, controllerGrips, everConnected, moveVars, inputVars, audioVars>>

\* The XR runtime moves the grip of a connected controller between frames.
gripTracked(i, pose) ==
    /\ pc = "idle"
    /\ controllers[i + 1].gamepad = "gamepad"
    /\ controllerGrips' = [controllerGrips EXCEPT ![i + 1] = pose]
    /\ UNCHANGED <<frameVars, controllers, everConnected, moveVars, inputVars, audioVars>>

\* The keydown listener: the key's flag becomes true.
onKeyDown(code) ==
    /\ pc = "idle"
    /\ move' = [move EXCEPT ![FlagOf(code)] = TRUE]
    /\ keysHeld' = keysHeld \cup {code}
    /\ UNCHANGED <<frameVars, controllerVars, playerPosition, cameraPosition, sticksIdle, audioVars>>

\* The keyup listener: the key's flag becomes false.
onKeyUp(code) ==
    /\ pc = "idle"
    /\ code \in keysHeld
    /\ move' = [move EXCEPT ![FlagOf(code)] = FALSE]
    /\ keysHeld' = keysHeld \ {code}
    /\ UNCHANGED <<frameVars, controllerVars, playerPosition, cameraPosition, sticksIdle, audioVars>>

RECURSIVE FlagsFrom(_, _)
\* The loop of updateControllers over the gamepads: a stick beyond the
\* deadzone sets the flag of its direction.
FlagsFrom(gamepads, flags) ==
    IF gamepads = << >> THEN flags
    ELSE LET joystickX == Head(gamepads).axes[1]
             joystickY == Head(gamepads).axes[2]
             beyondX == joystickX > deadzone \/ 0 - joystickX > deadzone
             beyondY == joystickY > deadzone \/ 0 - joystickY > deadzone
         IN  FlagsFrom(Tail(gamepads),
                 [forward |-> flags.forward \/ (beyondY /\ joystickY < 0),
                  backward |-> flags.backward \/ (beyondY /\ joystickY > 0),
                  left |-> flags.left \/ (beyondX /\ joystickX < 0),
                  right |-> flags.right \/ (beyondX /\ joystickX > 0)])

updateControllers(gamepads) ==
    /\ move' = FlagsFrom(gamepads, move)
    /\ UNCHANGED <<playerPosition, cameraPosition>>

\* The displacement of one frame.  The camera looks from (0, 20, 30) at the
\* origin, so its direction flattened to the ground is (0, 0, -1) and the
\* right direction, direction x up, is (1, 0, 0).
PlayerVelocity(delta) ==
    LET step == moveSpeed * delta
        along == (IF move.forward THEN step ELSE 0) - (IF move.backward THEN step ELSE 0)
        aside == (IF move.right THEN step ELSE 0) - (IF move.left THEN step ELSE 0)
    IN  <<aside, 0, 0 - along>>

\* updatePlayerMovement adding the velocity to the player group alone.
updatePlayerMovementLeavingCamera(delta) ==
    LET v == PlayerVelocity(delta)
    IN  /\ playerPosition' = [i \in 1..3 |-> playerPosition[i] + v[i]]
        /\ UNCHANGED <<cameraPosition, move>>

updatePlayerMovement(delta) ==
    LET v == PlayerVelocity(delta)
    IN  /\ playerPosition' = [i \in 1..3 |-> playerPosition[i] + v[i]]
        /\ cameraPosition' = [i \in 1..3 |-> cameraPosition[i] + v[i]]
        /\ UNCHANGED move

\* animate, statement by statement.
animateBegin(delta) ==
    /\ pc = "idle"
    /\ pc' = "dayNight"
    /\ frameDelta' = delta
    /\ frameLog' = << >>
    /\ UNCHANGED <<dayNightVars, playerVars, controllerVars, moveVars, inputVars, audioVars, terrainVars, treeVars, fireflyVars>>

\* animate going from the day-night update straight to the fireflies.
animateDayNightSkipSky ==
    /\ pc = "dayNight"
    /\ update(frameDelta)
    /\ pc' = "fireflies"
    /\ frameLog' = Append(frameLog, "dayNightCycle.update")
    /\ UNCHANGED <<frameDelta, playerVars, controllerVars, moveVars, inputVars, audioVars, terrainVars, treeVars, fireflyVars>>

animateDayNight ==
    /\ pc = "dayNight"
    /\ update(frameDelta)
    /\ pc' = "sky"
    /\ frameLog' = Append(frameLog, "dayNightCycle.update")
    /\ UNCHANGED <<frameDelta, playerVars, controllerVars, moveVars, inputVars, audioVars, terrainVars, treeVars, fireflyVars>>

animateSky ==
    /\ pc = "sky"
    /\ skyUpdate
    /\ pc' = "fireflies"
    /\ frameLog' = Append(frameLog, "sky.update")
    /\ UNCHANGED <<frameDelta, playerVars, controllerVars, moveVars, inputVars, audioVars, terrainVars, treeVars, fireflyVars>>

\* createTerrain's fireflies are an empty group whose update does nothing.
animateFireflies ==
    /\ pc = "fireflies"
    /\ pc' = "controllers"
    /\ frameLog' = Append(frameLog, "fireflies.update")
    /\ UNCHANGED <<frameDelta, dayNightVars, playerVars, controllerVars, moveVars, inputVars, audioVars, terrainVars, treeVars, fireflyVars>>

animateControllers(gamepads) ==
    /\ pc = "controllers"
    /\ updateControllers(gamepads)
    /\ sticksIdle' = WithinDeadzone(gamepads)
    /\ pc' = "hands"
    /\ UNCHANGED <<frameDelta, frameLog, keysHeld, dayNightVars, playerVars, controllerVars, audioVars, terrainVars, treeVars, fireflyVars>>

\* if (player && controllers.length > 0) player.updateHands(controllerGrips)
animateHands ==
    /\ pc = "hands"
    /\ IF Len(controllers) > 0
         THEN /\ updateHands(controllerGrips)
              /\ frameLog' = Append(frameLog, "player.updateHands")
         ELSE UNCHANGED <<playerVars, frameLog>>
    /\ pc' = "movement"
    /\ UNCHANGED <<frameDelta, dayNightVars, controllerVars, moveVars, inputVars, audioVars, terrainVars, treeVars, fireflyVars>>

animateMovement ==
    /\ pc = "movement"
    /\ updatePlayerMovement(frameDelta)
    /\ pc' = "render"
    /\ UNCHANGED <<frameDelta, frameLog, inputVars, dayNightVars, playerVars, controllerVars, audioVars, terrainVars, treeVars, fireflyVars>>

animateRender ==
    /\ pc = "render"
    /\ pc' = "idle"
    /\ frameLog' = Append(frameLog, "render")
    /\ UNCHANGED <<frameDelta, dayNightVars, playerVars, controllerVars, moveVars, inputVars, audioVars, terrainVars, treeVars, fireflyVars>>

----------------------------------------------------------------------------
(* Terrain colors (terrain.js)                                             *)

\* How many vertices the geometry has.
MaxVerts == 2

\* What Math.random() gives, in tenths.
Rands == {0, 5, 9}

\* Elevations in tenths of a unit: below 0, exactly 0, between 0 and 2,
\* exactly 2, and above 2 up to beyond the end of the blend at 5.
Heights == {-10, 0, 10, 20, 35, 80}

grassColor == <<59, 125, 78>>
darkGrassColor == <<45, 93, 59>>
dirtColor == <<139, 69, 19>>
lightGrassColor == <<124, 173, 109>>

\* The branch of applyTerrainColors with a lower bound of 0 that takes 0 in
\* the dirt blend and 2 in the regular grass.
TerrainBranchTiesBelow(height) ==
    IF height <= 0 THEN "dirt"
    ELSE IF height <= 20 THEN "grass"
    ELSE "lightGrass"

\* if (height < 0) ... else if (height < 2) ... else ...
TerrainBranch(height) ==
    IF height < 0 THEN "dirt"
    ELSE IF height < 20 THEN "grass"
    ELSE "lightGrass"

\* The color of one vertex, channels 0..255 times One; rand holds the three
\* draws of Math.random() the vertex may use.
TerrainColor(height, rand) ==
    LET branch == TerrainBranch(height)
    IN  IF branch = "dirt"
            THEN Lerp(dirtColor, darkGrassColor,
                      (3 * One) \div 10 + (rand[1] * 3 * One) \div 100)
        ELSE IF branch = "grass"
            THEN [i \in 1..3 |->
                     grassColor[i] * One + ((rand[i] - 5) * 255 * One) \div 100]
        ELSE Lerp(grassColor, lightGrassColor,
                  Min(One, ((height - 20) * One) \div 30))

\* createTerrain leaves the ground flat and without a color attribute.
TerrainInit ==
    /\ positions = [i \in 1..MaxVerts |-> 0]
    /\ colors = << >>
    /\ branches = << >>

\* A geometry of any elevations handed to applyTerrainColors.
TerrainInputs ==
    /\ positions \in [1..MaxVerts -> Heights]
    /\ colors = << >>
    /\ branches = << >>

applyTerrainColors(rands) ==
    /\ colors' = [i \in 1..Len(positions) |-> TerrainColor(positions[i], rands[i])]
    /\ branches' = [i \in 1..Len(positions) |-> TerrainBranch(positions[i])]
    /\ UNCHANGED positions

----------------------------------------------------------------------------
(* Vegetation scatter (trees.js)                                           *)

\* How many candidate slots a scatter loop has at most (the code's loops
\* have 100 and 30).
MaxTrees == 3

\* The thresholds of the two loops, in tenths.
ProceduralThreshold == -3
ModelThreshold == -4

\* What noise.noise gives, in tenths, from -1 to 1.
NoiseSamples == {-10, -4, -3, 0, 4, 10}

\* The thresholds a scatter is run with: those of the two loops, and the
\* two ends of the noise range.
Thresholds == {-10, ModelThreshold, ProceduralThreshold, 10}

\* treeTypes.length and treeModels.length
treeTypesLength == 3
treeModelsLength == 3

\* The gate discarding a sample on the threshold as well.
GatedInclusive(noiseValue, threshold) == noiseValue <= threshold

\* if (noiseValue < threshold) continue;
Gated(noiseValue, threshold) == noiseValue < threshold

\* Math.floor((noiseValue + 1) * 1.5) without the remainder.
TreeTypeIndexNoWrap(noiseValue) == ((noiseValue + 10) * 15) \div 100

\* Math.floor((noiseValue + 1) * 1.5) % treeTypes.length
TreeTypeIndex(noiseValue) ==
    JSRem(((noiseValue + 10) * 15) \div 100, treeTypesLength)

\* Math.floor(Math.random() * treeModels.length)
ModelIndex(rand) == (rand * treeModelsLength) \div 10

RECURSIVE ProceduralTrees(_, _)
\* The trees the loop of createProceduralTrees adds for the samples: each
\* sample that passes the gate gives a tree of the type its noise selects,
\* shifted by noise * 10 (in tenths of a unit).
ProceduralTrees(samples, threshold) ==
    IF samples = << >> THEN << >>
    ELSE LET n == Head(samples)
             rest == ProceduralTrees(Tail(samples), threshold)
         IN  IF Gated(n, threshold) THEN rest
             ELSE <<[noiseValue |-> n, index |-> TreeTypeIndex(n), shift |-> n * 10]>>
                  \o rest

RECURSIVE ModelTrees(_, _, _)
\* The same for the loop of placeGLTFTrees: the model is drawn at random,
\* the shift is noise * 8.
ModelTrees(samples, rands, threshold) ==
    IF samples = << >> THEN << >>
    ELSE LET n == Head(samples)
             rest == ModelTrees(Tail(samples), Tail(rands), threshold)
         IN  IF Gated(n, threshold) THEN rest
             ELSE <<[noiseValue |-> n, index |-> ModelIndex(Head(rands)), shift |-> n * 8]>>
                  \o rest

\* No scatter has run on the group.
TreesInit ==
    /\ scatter = "none"
    /\ treeCount = 0
    /\ noiseThreshold = ProceduralThreshold
    /\ candidates = << >>
    /\ trees = << >>

\* A scatter about to run with any number of slots and any threshold.
TreesInputs ==
    /\ scatter = "none"
    /\ treeCount \in 0..MaxTrees
    /\ noiseThreshold \in Thresholds
    /\ candidates = << >>
    /\ trees = << >>

createProceduralTrees(samples) ==
    /\ scatter = "none"
    /\ scatter' = "createProceduralTrees"
    /\ candidates' = samples
    /\ trees' = ProceduralTrees(samples, noiseThreshold)
    /\ UNCHANGED <<treeCount, noiseThreshold>>

placeGLTFTrees(samples, rands) ==
    /\ scatter = "none"
    /\ scatter' = "placeGLTFTrees"
    /\ candidates' = samples
    /\ trees' = ModelTrees(samples, rands, noiseThreshold)
    /\ UNCHANGED <<treeCount, noiseThreshold>>

----------------------------------------------------------------------------
(* Fireflies (terrain.js, addFireflies)                                    *)
(*                                                                         *)
(* The wall clock counts steps of 0.2618 s, the time in which the          *)
(* horizontal motion (0.2 rad/s) turns by one tick; the pulse (2 rad/s)    *)
(* turns by ten ticks a step, and a firefly's own speed is a whole number  *)
(* of ticks a step.  The index, added to the phases as radians, counts 19  *)
(* ticks (one radian is 19.1).                                             *)

\* How many fireflies the group has (the code's fireflyCount is 150).
MaxFireflies == 2

\* The last reading the wall clock can show.
MaxClock == 5

HorizontalRate == 1
PulseRate == 10 * HorizontalRate
IndexTicks == (Den * 7) \div 44

\* userData.speed (0.2 to 0.7 rad/s, in ticks a step) and userData.phase
\* (in ticks).
FireflySpeeds == {HorizontalRate, 3 * HorizontalRate}
FireflyPhases == {0, Quarter}

\* A firefly as the loop of addFireflies creates it: at its original
\* position, at scale 1.
NewFirefly(originalX, speed, phase) ==
    [originalX |-> originalX, originalY |-> One, originalZ |-> 0,
     speed |-> speed, phase |-> phase,
     position |-> <<originalX, One, 0>>,
     scale |-> One]

\* The body of forEach in fireflies.update with time put forward by delta.
AnimatedFireflyByDelta(firefly, index, time, delta) ==
    LET horizontalPhase == firefly.phase + index * IndexTicks
        later == time + delta
    IN  [firefly EXCEPT
            !.position =
                <<firefly.originalX + Sin(later * HorizontalRate + horizontalPhase),
                  firefly.originalY
                      + Sin(later * firefly.speed + firefly.phase) \div 2,
                  firefly.originalZ + Cos(later * HorizontalRate + horizontalPhase)>>,
            !.scale = (8 * One) \div 10
                          + (2 * Sin(later * PulseRate + index * IndexTicks)) \div 10]

\* The body of forEach in fireflies.update: position and scale from the
\* time, the firefly's userData and its index.
AnimatedFirefly(firefly, index, time, delta) ==
    LET horizontalPhase == firefly.phase + index * IndexTicks
    IN  [firefly EXCEPT
            !.position =
                <<firefly.originalX + Sin(time * HorizontalRate + horizontalPhase),
                  firefly.originalY
                      + Sin(time * firefly.speed + firefly.phase) \div 2,
                  firefly.originalZ + Cos(time * HorizontalRate + horizontalPhase)>>,
            !.scale = (8 * One) \div 10
                          + (2 * Sin(time * PulseRate + index * IndexTicks)) \div 10]

\* createTerrain's fireflies are an empty group; the clock has some reading.
FirefliesInit ==
    /\ fireflies = << >>
    /\ now = 0
    /\ updatedAt = -1

\* The group addFireflies builds, with any speeds and phases.
FirefliesInputs ==
    /\ fireflies \in [1..MaxFireflies ->
                         {NewFirefly(40 * One, speed, phase) :
                              speed \in FireflySpeeds, phase \in FireflyPhases}]
    /\ now = 0
    /\ updatedAt = -1

\* const time = Date.now() * 0.001, then forEach over the children.
firefliesUpdate(delta) ==
    /\ fireflies' = [i \in 1..Len(fireflies) |->
                        AnimatedFirefly(fireflies[i], i - 1, now, delta)]
    /\ updatedAt' = now
    /\ UNCHANGED now

\* The wall clock shows another reading: later, or earlier after a restart.
clockReads(time) ==
    /\ time # now
    /\ now' = time
    /\ UNCHANGED <<fireflies, updatedAt>>

----------------------------------------------------------------------------
(* Specifications                                                          *)

Init ==
    /\ DayNightInit
    /\ PlayerInit
    /\ AudioInit
    /\ HostInit
    /\ TerrainInit
    /\ TreesInit
    /\ FirefliesInit

\* The day-night controller and the sky's update, called in any order.
Next ==
    \/ \E delta \in Deltas : update(delta) /\ UNCHANGED <<playerVars, hostVars, terrainVars, treeVars, fireflyVars>>
    \/ getTimeOfDay /\ UNCHANGED <<playerVars, hostVars, terrainVars, treeVars, fireflyVars>>
    \/ \E time \in Times : setTimeOfDay(time) /\ UNCHANGED <<playerVars, hostVars, terrainVars, treeVars, fireflyVars>>
    \/ togglePause /\ UNCHANGED <<playerVars, hostVars, terrainVars, treeVars, fireflyVars>>
    \/ \E d \in Durations : setCycleSpeed(d) /\ UNCHANGED <<playerVars, hostVars, terrainVars, treeVars, fireflyVars>>
    \/ skyUpdate /\ UNCHANGED <<playerVars, hostVars, terrainVars, treeVars, fireflyVars>>

Spec == Init /\ [][Next]_vars

\* The player's hands, updateHands called with any list of poses.
NextPlayer ==
    \E poses \in PoseLists(MaxPoses) :
        updateHands(poses) /\ UNCHANGED <<dayNightVars, hostVars, terrainVars, treeVars, fireflyVars>>

\* The controller set up on a scene whose sky dome the traversal did not
\* find.
InitNoDome ==
    /\ DayNightSetup(FALSE)
    /\ PlayerInit
    /\ AudioInit
    /\ HostInit
    /\ TerrainInit
    /\ TreesInit
    /\ FirefliesInit

SpecNoDome == InitNoDome /\ [][Next]_vars

SpecPlayer == Init /\ [][NextPlayer]_vars

\* The host: the frames of the animation loop, and between them the events
\* of the two controllers.  Nobody touches a key or a stick.
NextHost ==
    \/ \E delta \in HostDeltas : animateBegin(delta)
    \/ animateDayNight
    \/ animateSky
    \/ animateFireflies
    \/ \E gamepads \in IdleGamepads : animateControllers(gamepads)
    \/ animateHands
    \/ animateMovement
    \/ animateRender
    \/ \E i \in {0, 1} :
           onConnected(i, IF i = 0 THEN "left" ELSE "right")
               /\ UNCHANGED <<dayNightVars, playerVars, terrainVars, treeVars, fireflyVars>>
    \/ \E i \in {0, 1} : onDisconnected(i) /\ UNCHANGED <<dayNightVars, playerVars, terrainVars, treeVars, fireflyVars>>
    \/ \E i \in {0, 1} : \E pose \in TrackedPoses(i) :
           gripTracked(i, pose) /\ UNCHANGED <<dayNightVars, playerVars, terrainVars, treeVars, fireflyVars>>

SpecHost == Init /\ [][NextHost]_vars

\* applyTerrainColors on a geometry of any elevations.
InitTerrain ==
    /\ DayNightInit
    /\ PlayerInit
    /\ AudioInit
    /\ HostInit
    /\ TerrainInputs
    /\ TreesInit
    /\ FirefliesInit

NextTerrain ==
    \E rands \in [1..MaxVerts -> [1..3 -> Rands]] :
        /\ colors = << >>
        /\ applyTerrainColors(rands)
        /\ UNCHANGED <<dayNightVars, playerVars, hostVars, treeVars, fireflyVars>>

SpecTerrain == InitTerrain /\ [][NextTerrain]_vars

\* One scatter loop, of any number of slots and any threshold, over any
\* noise.
InitTrees ==
    /\ DayNightInit
    /\ PlayerInit
    /\ AudioInit
    /\ HostInit
    /\ TerrainInit
    /\ TreesInputs
    /\ FirefliesInit

NextTrees ==
    \/ \E samples \in [1..treeCount -> NoiseSamples] :
           createProceduralTrees(samples)
               /\ UNCHANGED <<dayNightVars, playerVars, hostVars, terrainVars, fireflyVars>>
    \/ \E samples \in [1..treeCount -> NoiseSamples] :
           \E rands \in [1..treeCount -> Rands] :
               placeGLTFTrees(samples, rands)
                   /\ UNCHANGED <<dayNightVars, playerVars, hostVars, terrainVars, fireflyVars>>

SpecTrees == InitTrees /\ [][NextTrees]_vars

----------------------------------------------------------------------------

\* The fireflies of addFireflies: updates with any delta, between readings
\* of the wall clock in any order.
\* Walking: keys and sticks between and during frames of a quarter cycle
\* each.  A frame starts while the player is within MaxWalk frames' walk of
\* the origin along each ground axis.
MaxWalk == 1
WalkDelta == InitDayDuration \div 4
WithinWalk ==
    \A i \in {1, 3} :
        /\ playerPosition[i] <= MaxWalk * moveSpeed * WalkDelta
        /\ 0 - playerPosition[i] <= MaxWalk * moveSpeed * WalkDelta

NextMove ==
    \/ \E code \in Keys :
           onKeyDown(code) /\ UNCHANGED <<dayNightVars, playerVars, terrainVars, treeVars, fireflyVars>>
    \/ \E code \in Keys :
           onKeyUp(code) /\ UNCHANGED <<dayNightVars, playerVars, terrainVars, treeVars, fireflyVars>>
    \/ WithinWalk /\ animateBegin(WalkDelta)
    \/ animateDayNight
    \/ animateSky
    \/ animateFireflies
    \/ \E gamepads \in StickGamepads : animateControllers(gamepads)
    \/ animateHands
    \/ animateMovement
    \/ animateRender

SpecMove == Init /\ [][NextMove]_vars

InitFireflies ==
    /\ DayNightInit
    /\ PlayerInit
    /\ AudioInit
    /\ HostInit
    /\ TerrainInit
    /\ TreesInit
    /\ FirefliesInputs

NextFireflies ==
    \/ \E delta \in HostDeltas \cup {0} :
           firefliesUpdate(delta)
               /\ UNCHANGED <<dayNightVars, playerVars, hostVars, terrainVars, treeVars>>
    \/ \E time \in 0..MaxClock :
           clockReads(time)
               /\ UNCHANGED <<dayNightVars, playerVars, hostVars, terrainVars, treeVars>>

SpecFireflies == InitFireflies /\ [][NextFireflies]_vars

----------------------------------------------------------------------------
(* Properties of the day-night controller                                  *)

\* The last call was an update that ran past the pause gate.
UnpausedUpdateDone == lastOp = "update" /\ ~paused

\* C1: with the cycle not paused, setTimeOfDay(t0) with t0 >= 0 followed by
\* update(dt) with dt >= 0 leaves timeOfDay equal to
\* (t0 + dt / dayDuration) mod 1, dayDuration being the current duration.
C1_SetThenUpdate ==
    [][(/\ lastOp = "setTimeOfDay"
        /\ lastArg >= 0
        /\ ~paused
        /\ lastOp' = "update")
       => timeOfDay' = (lastArg + (lastArg' * Den) \div dayDuration) % Den]_vars

\* An update of two whole cycles of the halved duration, right after a
\* setTimeOfDay that left the time at 0.25: the sum wrapped back to 0.25.
C1_Witness ==
    /\ UnpausedUpdateDone
    /\ prevOp = "setTimeOfDay"
    /\ lastArg = InitDayDuration
    /\ dayDuration = InitDayDuration \div 2
    /\ timeOfDay = Quarter

\* C2: in every reachable state 0 <= timeOfDay < 1; setTimeOfDay wraps an
\* argument of either sign into [0,1).
C2_TimeOfDayInRange == timeOfDay >= 0 /\ timeOfDay < Den

\* C3: in every reachable state the sun, moon and ambient intensities and
\* the stars' visibility and opacity are the values the blend functions give
\* for the current timeOfDay.
C3_DerivedConsistent ==
    /\ sunLight.intensity = dayLightIntensity * DayFactor(timeOfDay)
    /\ moonLight.intensity = nightLightIntensity * NightFactor(timeOfDay)
    /\ ambientLight.intensity =
           dayAmbientIntensity * DayFactor(timeOfDay)
               + nightAmbientIntensity * NightFactor(timeOfDay)
    /\ stars.visible = (DayFactor(timeOfDay) < StarThreshold)
    /\ stars.opacity =
           (Max(0, StarThreshold - DayFactor(timeOfDay)) * One) \div StarThreshold

\* C4: while paused, update(dt) changes nothing: timeOfDay, the positions
\* and intensities of sun and moon, the ambient light, the sky colors and
\* the stars all keep their values.
C4_PausedUpdateChangesNothing ==
    [][(paused /\ lastOp' = "update")
       => UNCHANGED <<timeOfDay, dayDuration, paused, sunLight, moonLight,
                      ambientLight, skyUniforms, stars, visualSun>>]_vars

\* An update of a quarter cycle made while paused, the scene still showing
\* another time than the one set since.
C4_Witness ==
    /\ lastOp = "update"
    /\ lastArg = InitDayDuration \div 4
    /\ paused
    /\ timeOfDay = Quarter
    /\ sunLight.intensity # dayLightIntensity * DayFactor(timeOfDay)

\* C5: togglePause twice returns paused to its original value, each call
\* returning the new value of the flag; and when the cycle was unpaused
\* before the two calls, an update(dt) with dt > 0 after the second advances
\* timeOfDay by dt / dayDuration (modulo one cycle), changing it unless that
\* is a whole number of cycles.
C5_ToggleTwice ==
    [][/\ (lastOp = "togglePause" /\ lastOp' = "togglePause")
          => (/\ ret = paused
              /\ ret' = paused'
              /\ paused' = pausedBefore)
       /\ (/\ lastOp = "togglePause"
           /\ prevOp = "togglePause"
           /\ pausedBefore2 = FALSE
           /\ lastOp' = "update"
           /\ lastArg' > 0)
          => LET step == (lastArg' * Den) \div dayDuration
             IN  /\ (timeOfDay' - timeOfDay - step) % Den = 0
                 /\ (step % Den # 0 => timeOfDay' # timeOfDay)]_vars

\* togglePause was called twice in a row on an unpaused cycle, which is
\* unpaused again, the second call having returned false.
C5_Witness ==
    /\ lastOp = "togglePause"
    /\ prevOp = "togglePause"
    /\ pausedBefore2 = FALSE
    /\ pausedBefore = TRUE
    /\ paused = FALSE
    /\ ret = FALSE

\* C6: setCycleSpeed(d) with d <= 0 is a silent no-op: dayDuration,
\* timeOfDay, paused and the scene are unchanged and nothing is reported.
C6_NonPositiveSpeedIsNoOp ==
    [][(lastOp' = "setCycleSpeed" /\ lastArg' <= 0)
       => (/\ UNCHANGED <<cycleVars, sceneVars, setupVars>>
           /\ ret' = "undefined")]_vars

\* setCycleSpeed(-5) was called on a cycle whose duration had been halved.
C6_Witness ==
    /\ lastOp = "setCycleSpeed"
    /\ lastArg < 0
    /\ dayDuration = InitDayDuration \div 2

\* C7: dayDuration is strictly positive in every reachable state.
C7_DurationPositive == dayDuration > 0

\* An update ran right after setCycleSpeed(0) on a halved cycle and divided
\* by the duration that call left in place.
C7_Witness ==
    /\ UnpausedUpdateDone
    /\ prevOp = "setCycleSpeed"
    /\ lastArg = DeltaUnit
    /\ dayDuration = InitDayDuration \div 2
    /\ timeOfDay = Half + 2

\* C8: timeOfDay 0.5 is noon and 0 is midnight: after an update that leaves
\* timeOfDay at 0.5 the sun's intensity is dayLightIntensity and the stars
\* are hidden, and at timeOfDay 0 the sun's intensity is 0.
C8_HalfIsNoon ==
    /\ (UnpausedUpdateDone /\ timeOfDay = Half)
       => (sunLight.intensity = dayLightIntensity * One /\ ~stars.visible)
    /\ (UnpausedUpdateDone /\ timeOfDay = 0) => sunLight.intensity = 0

C10_StarsFlipAtThreshold ==
    /\ [](UnpausedUpdateDone
          => (stars.visible <=> DayFactor(timeOfDay) * 10 < One))
    /\ [][(/\ UnpausedUpdateDone
           /\ lastOp' = "update"
           /\ stars.visible' # stars.visible)
          => ((DayFactor(timeOfDay) * 10 < One)
                  # (DayFactor(timeOfDay') * 10 < One))]_vars

\* A sweep in steps of one tick took the time from 0.0083 (dayFactor 0.05,
\* stars shown) to 0.0167 (dayFactor 0.10, stars hidden).
C10_Witness ==
    /\ UnpausedUpdateDone
    /\ prevOp = "update"
    /\ lastArg = DeltaUnit
    /\ dayDuration = InitDayDuration
    /\ timeOfDay = 2
    /\ ~stars.visible
    /\ stars.opacity = 0

\* C11: after every unpaused update the stars' opacity is
\* (0.1 - dayFactor) / 0.1 clamped to [0,1]: it lies in [0,1], is 1 when
\* dayFactor is 0, and is strictly positive exactly when the stars are
\* visible.
C11_StarsOpacityRamp ==
    UnpausedUpdateDone
    => LET df == DayFactor(timeOfDay)
           ramp == IF df * 10 >= One THEN 0 ELSE One - df * 10
       IN  /\ stars.opacity = ramp
           /\ stars.opacity >= 0
           /\ stars.opacity <= One
           /\ (df = 0 => stars.opacity = One)
           /\ (stars.opacity > 0 <=> stars.visible)

\* An update left the time one tick past midnight, inside the fade: the
\* stars are visible at an opacity strictly between 0 and 1.
C11_Witness ==
    /\ UnpausedUpdateDone
    /\ timeOfDay = 1
    /\ stars.visible
    /\ stars.opacity > 0
    /\ stars.opacity < One

\* C12: after every unpaused update the sun's intensity is
\* dayFactor * 2.5, the moon's nightFactor * 0.5 and the ambient one
\* 1.5 * dayFactor + 0.5 * nightFactor, so they stay in [0, 2.5], [0, 0.5]
\* and [0.5, 1.5].
C12_LightIntensities ==
    UnpausedUpdateDone
    => LET df == Max(0, Sin(timeOfDay))
           nf == One - df
       IN  /\ sunLight.intensity = df * dayLightIntensity
           /\ moonLight.intensity = nf * nightLightIntensity
           /\ ambientLight.intensity =
                  dayAmbientIntensity * df + nightAmbientIntensity * nf
           /\ sunLight.intensity >= 0
           /\ sunLight.intensity <= 25 * One
           /\ moonLight.intensity >= 0
           /\ moonLight.intensity <= 5 * One
           /\ ambientLight.intensity >= 5 * One
           /\ ambientLight.intensity <= 15 * One

\* An update left the time at 1/12 of the cycle, where dayFactor is 0.5:
\* the sun at 1.25, the moon at 0.25, the ambient light at 1.0.
C12_Witness ==
    /\ UnpausedUpdateDone
    /\ timeOfDay = Quarter \div 3
    /\ sunLight.intensity = (25 * One) \div 2
    /\ moonLight.intensity = (5 * One) \div 2
    /\ ambientLight.intensity = 10 * One

\* C20: the position an unpaused update assigns to the visual sun is at
\* distance 300 from the origin for every timeOfDay (compared in units of
\* 1/10 with a tolerance of 1% on the squared distance, which covers the
\* rounding of the sine table).
C20_SunOrbitRadius ==
    (UnpausedUpdateDone /\ sunRef)
    => LET x == visualSun.position[1] \div (One \div 10)
           y == visualSun.position[2] \div (One \div 10)
           z == visualSun.position[3] \div (One \div 10)
           d2 == x * x + y * y + z * z
           r2 == (SunOrbitRadius * 10) * (SunOrbitRadius * 10)
       IN  /\ 100 * (d2 - r2) <= r2
           /\ 100 * (r2 - d2) <= r2

\* C21: after a day-night update that reaches the visual sun, the sun
\* billboard is visible exactly when the elevation sin(2 pi timeOfDay) is
\* above -0.2, the opacity of its parts is (elevation + 0.2) * 2 clamped to
\* [0,1], and whenever it is not visible its opacity is 0.
C21_SunBillboardFade ==
    (UnpausedUpdateDone /\ sunRef)
    => LET elevation == Sin(timeOfDay)
           raw == 2 * elevation + (4 * One) \div 10
           clamped == IF raw < 0 THEN 0 ELSE IF raw > One THEN One ELSE raw
       IN  /\ visualSun.visible <=> 10 * elevation > 0 - 2 * One
           /\ \A c \in 1..3 : visualSun.opacity[c] = clamped
           /\ ~visualSun.visible => \A c \in 1..3 : visualSun.opacity[c] = 0

\* An update left the sun one tick below the horizon: the billboard is
\* still visible, at an opacity strictly between 0 and 1.
C21_Witness ==
    /\ UnpausedUpdateDone
    /\ sunRef
    /\ timeOfDay = Half + 1
    /\ visualSun.visible
    /\ visualSun.opacity[1] > 0
    /\ visualSun.opacity[1] < One


\* C24: timeOfDay changes only through an update that is not paused or
\* through setTimeOfDay: togglePause, setCycleSpeed and getTimeOfDay leave
\* it as it is; and setTimeOfDay and update leave paused and dayDuration as
\* they are.
C24_FrameEffects ==
    [][/\ timeOfDay' # timeOfDay
            => \/ lastOp' = "setTimeOfDay"
               \/ (lastOp' = "update" /\ ~paused)
       /\ lastOp' \in {"togglePause", "setCycleSpeed", "getTimeOfDay"}
            => timeOfDay' = timeOfDay
       /\ lastOp' \in {"setTimeOfDay", "update"}
            => (paused' = paused /\ dayDuration' = dayDuration)]_vars

\* setTimeOfDay put the time at a quarter, then the cycle was paused and
\* its speed doubled: the time is still at the quarter.
C24_Witness ==
    /\ lastOp = "setCycleSpeed"
    /\ prevOp = "togglePause"
    /\ paused
    /\ dayDuration = InitDayDuration \div 2
    /\ timeOfDay = Quarter


\* C22: when setup found no sky dome, update(dt) raises no fault and skips
\* the sky colors only: timeOfDay advances, and the positions of sun and
\* moon, the light intensities and the stars are recomputed for the new
\* time, while the dome's colors stay as they were.
C22_NoDomeSkipsSkyOnly ==
    /\ [](~skyDome)
    /\ []((UnpausedUpdateDone /\ ~skyDome)
           => /\ ret = "undefined"
              /\ sunLight = [position |-> SunPosition(timeOfDay),
                             intensity |-> SunIntensity(timeOfDay)]
              /\ moonLight = [position |-> MoonPosition(timeOfDay),
                              intensity |-> MoonIntensity(timeOfDay)]
              /\ ambientLight.intensity = AmbientIntensity(timeOfDay)
              /\ stars.visible = StarsVisible(timeOfDay)
              /\ stars.opacity = StarsOpacity(timeOfDay)
              /\ skyUniforms = [topColor |-> [i \in 1..3 |-> daySkyTop[i] * One],
                                bottomColor |-> [i \in 1..3 |-> daySkyBottom[i] * One]])
    /\ [][(lastOp' = "update" /\ ~paused /\ ~skyDome)
            => timeOfDay' = JSRem(timeOfDay + (lastArg' * Den) \div dayDuration, Den)]_vars

\* Without a dome, an update of a quarter cycle took the time from noon to
\* 0.75, deep night: the stars are out at full opacity, the sun light is
\* off, and the dome's colors are still those of the day.
C22_Witness ==
    /\ ~skyDome
    /\ UnpausedUpdateDone
    /\ lastArg = InitDayDuration \div 4
    /\ timeOfDay = Half + Quarter
    /\ stars.visible
    /\ stars.opacity = One
    /\ sunLight.intensity = 0
    /\ skyUniforms.topColor = [i \in 1..3 |-> daySkyTop[i] * One]


----------------------------------------------------------------------------
(* Properties of the player's hands                                        *)

\* C15: a hand is visible only if some earlier updateHands call brought a
\* pose at its index (0 for the left hand, 1 for the right hand); a hand
\* whose index no call ever supplied is still hidden.
C15_VisibleOnlyIfSupplied ==
    /\ leftHand.visible => 0 \in supplied
    /\ rightHand.visible => 1 \in supplied

\* Calls with one pose only: the left hand shows, the right hand, whose
\* index was never supplied, is still hidden.
C15_Witness ==
    /\ Len(lastControllers) = 1
    /\ supplied = {0}
    /\ leftHand.visible
    /\ ~rightHand.visible

\* C27: hand visibility only grows: once updateHands has shown a hand, no
\* later call hides it, not even a call with an empty list or with a list
\* that does not reach the hand's index; such a call leaves the hand with
\* the position and orientation it last copied.
C27_VisibilityMonotonic ==
    [][/\ leftHand.visible => leftHand'.visible
       /\ rightHand.visible => rightHand'.visible
       /\ (leftHand.visible /\ Len(lastControllers') = 0)
            => (leftHand'.position = leftHand.position
                /\ leftHand'.quaternion = leftHand.quaternion)
       /\ (rightHand.visible /\ Len(lastControllers') <= 1)
            => (rightHand'.position = rightHand.position
                /\ rightHand'.quaternion = rightHand.quaternion)]_vars

\* After both hands were shown away from the origin, the last call came
\* with an empty list: both are still visible where they were.
C27_Witness ==
    /\ lastControllers = << >>
    /\ leftHand.visible
    /\ rightHand.visible
    /\ leftHand.position # <<0, 0, 0>>
    /\ rightHand.position # <<0, 0, 0>>
    /\ leftHand.position # rightHand.position

\* C30: after updateHands(controllers) with at least i + 1 entries, hand i
\* has exactly the position and the quaternion of controllers[i], entry 0
\* driving the left hand and entry 1 the right one; a call with exactly one
\* entry leaves the right hand's transform and visibility as they were.
C30_PosesCopiedVerbatim ==
    /\ [](Len(lastControllers) >= 1
           => (leftHand.position = lastControllers[1].position
               /\ leftHand.quaternion = lastControllers[1].quaternion))
    /\ [](Len(lastControllers) >= 2
           => (rightHand.position = lastControllers[2].position
               /\ rightHand.quaternion = lastControllers[2].quaternion))
    /\ [][Len(lastControllers') = 1 => rightHand' = rightHand]_vars

\* The last call brought two different poses: the left hand has the
\* first, the right hand the second.
C30_Witness ==
    /\ Len(lastControllers) = 2
    /\ lastControllers[1] # lastControllers[2]
    /\ lastControllers[1].quaternion # lastControllers[2].quaternion
    /\ leftHand.position = lastControllers[1].position
    /\ leftHand.quaternion = lastControllers[1].quaternion
    /\ rightHand.position = lastControllers[2].position
    /\ rightHand.quaternion = lastControllers[2].quaternion


----------------------------------------------------------------------------
(* Properties of the host loop                                             *)

\* The component updates and the render of one frame, in order.
FrameOrder ==
    <<"dayNightCycle.update", "sky.update", "fireflies.update",
      "player.updateHands", "render">>

\* A frame has run to its end.
FrameDone == pc = "idle" /\ frameLog # << >>

\* C13: on every frame the host loop updates the day-night cycle, the sky,
\* the fireflies and the player, in this order and each once, and renders
\* only after all of them: what a frame has issued so far is always the
\* beginning of that order, and all of it once the frame is done.
C13_FrameOrder ==
    /\ Len(frameLog) <= Len(FrameOrder)
    /\ \A i \in 1..Len(frameLog) : frameLog[i] = FrameOrder[i]
    /\ FrameDone => frameLog = FrameOrder
    /\ pc = "render" => Len(frameLog) = Len(FrameOrder) - 1

\* A frame after the first one is done: it updated the day-night cycle
\* (unpaused, after the sky update of the frame before) and rendered last.
C13_Witness ==
    /\ FrameDone
    /\ frameLog[Len(frameLog)] = "render"
    /\ sunRef
    /\ timeOfDay = 0
    /\ leftHand.visible

\* C14: on every frame of the host loop the bird volume is set to
\* 0.5 * dayFactor and the night volume to 0.5 * nightFactor of the current
\* timeOfDay: once a frame is done the two volumes have these values.
C14_AudioFollowsTimeOfDay ==
    FrameDone
    => /\ audioSources.birds.volume = 5 * DayFactor(timeOfDay)
       /\ audioSources.night.volume = 5 * NightFactor(timeOfDay)

\* C16: in the host loop, as long as no controller 'connected' event has
\* fired, both hands are hidden.
C16_HiddenUntilConnected ==
    ~everConnected => (~leftHand.visible /\ ~rightHand.visible)

\* C29: every unpaused day-night update of the host loop repositions the
\* visual sun, the one of the first frame included: when animate has just
\* run dayNightCycle.update, the reference sky.userData.sun is set and the
\* visual sun is where the new timeOfDay puts it.
C29_SunMovedOnEveryFrame ==
    (pc = "sky" /\ ~paused)
    => /\ sunRef
       /\ visualSun.position = VisualSun(timeOfDay).position


----------------------------------------------------------------------------
(* Properties of the terrain colors                                        *)

\* C17: a vertex of elevation exactly 0 is colored by the dirt-blend branch
\* and one of elevation exactly 2 by the regular-grass branch; elevations
\* strictly between 0 and 2 take the regular-grass branch and elevations
\* above 2 the lighter-grass branch.
C17_TiesAsClaimed ==
    colors # << >>
    => \A i \in 1..Len(positions) :
           /\ positions[i] = 0 => branches[i] = "dirt"
           /\ positions[i] = 20 => branches[i] = "grass"
           /\ (positions[i] > 0 /\ positions[i] < 20) => branches[i] = "grass"
           /\ positions[i] > 20 => branches[i] = "lightGrass"

\* C17, amended: the dirt blend colors the elevations strictly below 0, the
\* regular grass those from 0 (included) to 2 (excluded), the lighter grass
\* those from 2 on; a vertex at exactly 0 gets the base grass color with a
\* variation of at most 0.05 per channel, a vertex at exactly 2 the base
\* grass color itself (a blend of weight 0).
C17_BranchBoundaries ==
    colors # << >>
    => \A i \in 1..Len(positions) :
           /\ positions[i] < 0 <=> branches[i] = "dirt"
           /\ (positions[i] >= 0 /\ positions[i] < 20) <=> branches[i] = "grass"
           /\ positions[i] >= 20 <=> branches[i] = "lightGrass"
           /\ positions[i] = 0
                  => \A c \in 1..3 :
                         /\ 100 * (colors[i][c] - grassColor[c] * One) <= 5 * 255 * One
                         /\ 100 * (grassColor[c] * One - colors[i][c]) <= 5 * 255 * One
           /\ positions[i] = 20
                  => colors[i] = [c \in 1..3 |-> grassColor[c] * One]

\* A geometry with one vertex at exactly 0 and one at exactly 2 was
\* colored: the first by the regular grass, the second by the lighter
\* grass.
C17_Witness ==
    /\ colors # << >>
    /\ positions[1] = 0
    /\ branches[1] = "grass"
    /\ positions[2] = 20
    /\ branches[2] = "lightGrass"

----------------------------------------------------------------------------
(* Properties of the vegetation scatter                                    *)

\* The samples of the candidates the gate lets through, in order.
Kept == SelectSeq(candidates, LAMBDA n : ~(n < noiseThreshold))

\* The trees are those of the kept samples, so they are at most treeCount.
PlacedAreKept ==
    /\ Len(candidates) = treeCount
    /\ Len(trees) = Len(Kept)
    /\ \A k \in 1..Len(trees) : trees[k].noiseValue = Kept[k]
    /\ Len(trees) <= treeCount

C19_TypeIndexValid ==
    scatter = "createProceduralTrees"
    => \A k \in 1..Len(trees) :
           /\ trees[k].index \in 0..(treeTypesLength - 1)
           /\ \E q \in 0..1 :
                  trees[k].index + q * treeTypesLength
                      = ((trees[k].noiseValue + 10) * 15) \div 100

\* The procedural scatter placed a tree for a sample of exactly 1, where
\* the floor is 3 and the index wraps to 0, and one for a sample of 0.4,
\* whose index is 2.
C19_Witness ==
    /\ scatter = "createProceduralTrees"
    /\ Len(trees) = 2
    /\ trees[1].noiseValue = 10
    /\ trees[1].index = 0
    /\ trees[2].noiseValue = 4
    /\ trees[2].index = 2

----------------------------------------------------------------------------
(* Properties of the fireflies                                             *)

\* C23: firefly motion replays the wall clock without state: after
\* fireflies.update(delta) the position and the scale of each firefly are
\* given by the clock's reading and the firefly's own original position,
\* speed, phase and index alone, whatever delta and the earlier updates
\* were; an update at the reading of the update before it changes nothing.
C23_StatelessReplay ==
    /\ [](updatedAt # -1
           => \A i \in 1..Len(fireflies) :
                  LET f == fireflies[i]
                      turn == updatedAt * HorizontalRate + f.phase + (i - 1) * IndexTicks
                  IN  /\ f.position[1] = f.originalX + Sin(turn)
                      /\ f.position[2] = f.originalY
                                             + Sin(updatedAt * f.speed + f.phase) \div 2
                      /\ f.position[3] = f.originalZ + Sin(turn + Quarter)
                      /\ f.scale = (8 * One) \div 10
                                       + (2 * Sin(updatedAt * PulseRate
                                                      + (i - 1) * IndexTicks)) \div 10)
    /\ [][(updatedAt = now /\ updatedAt' = now') => fireflies' = fireflies]_vars
    /\ [][\A i \in 1..Len(fireflies) :
              /\ fireflies'[i].originalX = fireflies[i].originalX
              /\ fireflies'[i].originalY = fireflies[i].originalY
              /\ fireflies'[i].originalZ = fireflies[i].originalZ
              /\ fireflies'[i].speed = fireflies[i].speed
              /\ fireflies'[i].phase = fireflies[i].phase]_vars

\* An update ran while the clock read 1: the first firefly, of speed 3 and
\* phase 0, is one tick round its circle and three ticks up its bobbing;
\* the second, whose index shifts its phase, is elsewhere on its circle.
C23_Witness ==
    /\ updatedAt = 1
    /\ now = 1
    /\ Len(fireflies) >= 2
    /\ fireflies[1].speed = 3 * HorizontalRate
    /\ fireflies[1].phase = 0
    /\ fireflies[1].position =
           <<40 * One + Sin(1), One + Sin(3) \div 2, Cos(1)>>
    /\ fireflies[2].position[1] # fireflies[1].position[1]

\* C28: with the procedural threshold -0.3, each of the three tree types
\* is selected over a range of accepted noise values, not just at a single
\* value: for each index 0 (pine), 1 (broadleaf) and 2 (simple) there are
\* two accepted samples n1 < n2 such that every sample from n1 to n2
\* selects that index.
C28_EveryTypeHasARange ==
    (scatter = "createProceduralTrees" /\ noiseThreshold = ProceduralThreshold)
    => \A k \in 0..(treeTypesLength - 1) :
           \E n1 \in ProceduralThreshold..10 :
               \E n2 \in (n1 + 1)..10 :
                   \A n \in n1..n2 :
                       ~Gated(n, noiseThreshold) /\ TreeTypeIndex(n) = k

----------------------------------------------------------------------------
(* Properties of walking (SpecMove)                                        *)

\* The step in which a frame calls updatePlayerMovement.
MovementStep == pc = "movement" /\ pc' = "render"

\* C25: on a frame where every gamepad axis is within the deadzone and no
\* WASD key is down, updatePlayerMovement leaves player.group.position and
\* camera.position as they were, whatever the sticks did on earlier frames.
C25_NoDriftAtRest ==
    [][(MovementStep /\ sticksIdle /\ keysHeld = {})
          => UNCHANGED <<playerPosition, cameraPosition>>]_vars

\* C26: every updatePlayerMovement call adds one and the same displacement
\* to player.group.position and to camera.position, so camera.position
\* minus player.group.position stays what init made it, (0, 20, 30); and
\* with forward and backward both set the call moves nothing along the view
\* direction, with left and right both set nothing across it.
C26_CameraFollowsPlayer ==
    /\ [](\A i \in 1..3 : cameraPosition[i] - playerPosition[i] = <<0, 20, 30>>[i])
    /\ [][MovementStep =>
             /\ \A i \in 1..3 : cameraPosition'[i] - cameraPosition[i]
                                   = playerPosition'[i] - playerPosition[i]
             /\ (move.forward /\ move.backward) => playerPosition'[3] = playerPosition[3]
             /\ (move.left /\ move.right) => playerPosition'[1] = playerPosition[1]
             /\ (move.forward /\ move.backward /\ (move.left <=> move.right))
                    => UNCHANGED <<playerPosition, cameraPosition>>]_vars

\* A frame has called updatePlayerMovement with forward and backward both
\* set and right alone beside them: the player stands to the right of the
\* origin, no nearer and no farther, and the camera above and behind it.
C26_Witness ==
    /\ pc = "render"
    /\ move.forward /\ move.backward /\ move.right /\ ~move.left
    /\ playerPosition = <<moveSpeed * WalkDelta, 0, 0>>
    /\ cameraPosition = <<moveSpeed * WalkDelta, 20, 30>>

====
